---- MODULE Spec2Model ----
(***************************************************************************)
(* Model of the competitive-summary service (src/main.py).                 *)
(*                                                                         *)
(* POST /analyze/{brand_name} reads the brand's competitor rows, asks a    *)
(* completion service for a two-field analysis and saves it to the         *)
(* competitor_summary table with a select-then-update-or-insert.           *)
(*                                                                         *)
(* A request is a process whose atomic steps are its calls to the external *)
(* services (the store and the completion service); everything the handler *)
(* computes between two calls is part of the step of the earlier call.     *)
(* Requests served by different workers interleave at these calls; the     *)
(* store is the only state they share.                                     *)
(***************************************************************************)
EXTENDS Integers, Sequences, FiniteSets, TLC

\* ------------------------------------------------------------------ bounds

\* number of POST /analyze requests in a behaviour
NumReq == 3
\* longest competitors_data list given to the prompt builder
MaxComps == 2

Reqs == 1..NumReq
Brands == {"Acme", "Bolt"}

VARIABLES
    store,      \* competitor_summary table: sequence of rows, index = id
    pc,         \* per request: position in create_analysis
    brand,      \* per request: the path parameter brand_name
    data,       \* per request: competitors_data
    analysis,   \* per request: result of analyze_competitive_landscape
    existing,   \* per request: existing.data of the existence select (ids)
    resp,       \* per request: responses sent to the client
    calls,      \* per request: log of external calls made, with outcome
    wrote,      \* per request: log of writes the store executed for it
    lastDone,   \* per brand: the request answered last (0: none yet)
    comps,      \* prompt builder: competitors_data being formatted
    overview    \* prompt builder: competitors_overview, one block per row

reqVars == <<store, pc, brand, data, analysis, existing, resp, calls, wrote, lastDone>>
promptVars == <<comps, overview>>
vars == <<store, pc, brand, data, analysis, existing, resp, calls, wrote, lastDone,
          comps, overview>>

\* ------------------------------------------------------------ python values

PyNone == [t |-> "None"]
PyStr(s) == [t |-> "str", s |-> s]

\* str(v) as an f-string replacement field renders it
Format(v) == IF v.t = "None" THEN "None" ELSE v.s

\* dict.get(key, default): the default is used only when the key is absent
DictGet(d, key, default) == IF key \in DOMAIN d THEN d[key] ELSE default

\* ------------------------------------------------------------ prompt builder

\* the nine columns selected from competitors, with the label of each
Fields == <<"competitor_name", "program_summary", "competitor_positioning",
            "competitor_rewards_benefits", "competitor_user_feedback",
            "competitor_strength", "competitor_weakness",
            "competitor_opportunity", "competitor_threats">>

Labels == <<"Competitor", "Program Summary", "Market Position",
            "Rewards & Benefits", "User Feedback", "Strengths", "Weaknesses",
            "Opportunities", "Threats">>

FieldSet == {Fields[i] : i \in 1..Len(Fields)}

\* one block of competitors_overview: for each label the text after it
Block(comp) ==
    [i \in 1..Len(Fields) |->
        [label |-> Labels[i],
         text  |-> Format(DictGet(comp, Fields[i], PyStr("N/A")))]]

\* competitor rows: every column a text, or one column null, or one key absent
FullRow(tag) == [f \in FieldSet |-> PyStr(tag)]
NullRow(tag, g) == [f \in FieldSet |-> IF f = g THEN PyNone ELSE PyStr(tag)]
AbsentRow(tag, g) == [f \in FieldSet \ {g} |-> PyStr(tag)]

RowSet ==
    {FullRow("x")}
    \cup {NullRow("x", g) : g \in FieldSet}
    \cup {AbsentRow("x", g) : g \in FieldSet}

RECURSIVE SeqsUpTo(_, _)
SeqsUpTo(S, n) ==
    IF n = 0 THEN {<<>>}
    ELSE LET shorter == SeqsUpTo(S, n - 1)
         IN  shorter \cup {Append(s, x) : s \in {t \in shorter : Len(t) = n - 1}, x \in S}

\* ---------------------------------------------------------------- the store

SummaryRow(b, d) ==
    [brand_name |-> b,
     competitive_summary |-> d.competitive_summary,
     gaps_opportunities |-> d.gaps_opportunities]

\* a plausible slip: the existence select filters on a column that never matches
SelectIdsWrongFilter(s, b) == {i \in 1..Len(s) : s[i].competitive_summary = b}

\* select('id').eq('brand_name', b): the ids of the brand's rows
SelectIds(s, b) == {i \in 1..Len(s) : s[i].brand_name = b}

\* a plausible slip: the update addresses the one row found first (by id)
UpdateFirstRow(s, b, d) ==
    [i \in 1..Len(s) |->
        IF s[i].brand_name = b /\ \A j \in 1..(i - 1) : s[j].brand_name # b
        THEN SummaryRow(b, d) ELSE s[i]]

\* update({...}).eq('brand_name', b): every matching row gets the two fields
UpdateRows(s, b, d) ==
    [i \in 1..Len(s) |-> IF s[i].brand_name = b THEN SummaryRow(b, d) ELSE s[i]]

\* a plausible slip: an insert that a unique key on brand_name turns into a no-op
InsertRowUnique(s, b, d) ==
    IF \E i \in 1..Len(s) : s[i].brand_name = b THEN s ELSE Append(s, SummaryRow(b, d))

\* insert({...}): a new row, whatever the table already holds
InsertRow(s, b, d) == Append(s, SummaryRow(b, d))

\* ------------------------------------------------------------- the analysis

Analyses ==
    {[competitive_summary |-> "s1", gaps_opportunities |-> "g1"],
     [competitive_summary |-> "s2", gaps_opportunities |-> "g2"]}

Parsed(a) == [t |-> "CompetitiveLandscape",
              competitive_summary |-> a.competitive_summary,
              gaps_opportunities |-> a.gaps_opportunities]

\* a plausible slip: a message without a parsed object becomes an empty analysis
MessageParsedOrEmpty(out, a) ==
    IF out = "none"
    THEN [t |-> "CompetitiveLandscape", competitive_summary |-> "",
          gaps_opportunities |-> ""]
    ELSE Parsed(a)

\* completion.choices[0].message.parsed: None when the message carries no
\* parsed object (a refusal), else the two-field object
MessageParsed(out, a) == IF out = "none" THEN PyNone ELSE Parsed(a)

\* the dict built from analysis for update/insert; None has no attributes
WriteDict(a) ==
    IF a.t = "None"
    THEN [ok |-> FALSE,
          err |-> "'NoneType' object has no attribute 'competitive_summary'"]
    ELSE [ok |-> TRUE,
          val |-> [competitive_summary |-> a.competitive_summary,
                   gaps_opportunities |-> a.gaps_opportunities]]

\* --------------------------------------------------------------- responses

\* a plausible slip: the two fields of the response body exchanged
Response200Swapped(b, a) ==
    [status |-> 200,
     body |-> [brand_name |-> b,
               competitive_summary |-> a.gaps_opportunities,
               gaps_opportunities |-> a.competitive_summary]]

\* CompetitiveLandscapeResponse(...) returned by the handler
Response200(b, a) ==
    [status |-> 200,
     body |-> [brand_name |-> b,
               competitive_summary |-> a.competitive_summary,
               gaps_opportunities |-> a.gaps_opportunities]]

\* except Exception as e: raise HTTPException(status_code=500, detail=str(e))
HandlerExcept(msg) == [status |-> 500, detail |-> msg]

\* str() of the HTTPException(status_code=404, detail=...) raised inside the
\* try block: "<status>: <detail>" where the class defines __str__, "" where
\* it does not (the exception is built from keyword arguments only)
NotFoundStr == {"404: No competitor data found", ""}

\* rows a competitors read can return for a brand
SampleReads == {<<>>, <<NullRow("x", "competitor_strength"), FullRow("x")>>}

Respond(r, response) ==
    /\ resp' = [resp EXCEPT ![r] = Append(@, response)]
    /\ pc' = [pc EXCEPT ![r] = "Responded"]
    /\ lastDone' = [lastDone EXCEPT ![brand[r]] = r]

Log(r, op, out) == calls' = [calls EXCEPT ![r] = Append(@, [op |-> op, out |-> out])]

\* ------------------------------------------------------------------- Init

InitReq ==
    /\ store = <<>>
    /\ pc = [r \in Reqs |-> "idle"]
    /\ brand = [r \in Reqs |-> "Acme"]
    /\ data = [r \in Reqs |-> <<>>]
    /\ analysis = [r \in Reqs |-> PyNone]
    /\ existing = [r \in Reqs |-> {}]
    /\ resp = [r \in Reqs |-> <<>>]
    /\ calls = [r \in Reqs |-> <<>>]
    /\ wrote = [r \in Reqs |-> <<>>]
    /\ lastDone = [b \in Brands |-> 0]

Init ==
    /\ InitReq
    /\ comps = <<>>
    /\ overview = <<>>

\* ---------------------------------------------------------------- actions

\* POST /analyze/{brand_name} arrives
Receive(r, b) ==
    /\ pc[r] = "idle"
    /\ pc' = [pc EXCEPT ![r] = "Received"]
    /\ brand' = [brand EXCEPT ![r] = b]
    /\ UNCHANGED <<store, data, analysis, existing, resp, calls, wrote, lastDone>>
    /\ UNCHANGED promptVars

\* competitors_data = get_competitors_data(brand_name), and the empty check
FetchCompetitors(r) ==
    /\ pc[r] = "Received"
    /\ \/ /\ Log(r, "competitors.select", "raise")
          /\ Respond(r, HandlerExcept("competitors read failed"))
          /\ UNCHANGED data
       \/ \E rows \in SampleReads :
            /\ data' = [data EXCEPT ![r] = rows]
            /\ IF rows = <<>>
               THEN /\ Log(r, "competitors.select", "empty")
                    /\ \E msg \in NotFoundStr : Respond(r, HandlerExcept(msg))
               ELSE /\ Log(r, "competitors.select", "rows")
                    /\ pc' = [pc EXCEPT ![r] = "DataFetched"]
                    /\ UNCHANGED <<resp, lastDone>>
    /\ UNCHANGED <<store, brand, analysis, existing, wrote>>
    /\ UNCHANGED promptVars

\* analysis = analyze_competitive_landscape(brand_name, competitors_data)
Analyze(r) ==
    /\ pc[r] = "DataFetched"
    /\ \/ /\ Log(r, "completions.parse", "raise")
          /\ Respond(r, HandlerExcept("completion failed"))
          /\ UNCHANGED analysis
       \/ \E out \in {"none", "parsed"}, a \in Analyses :
            /\ Log(r, "completions.parse", out)
            /\ analysis' = [analysis EXCEPT ![r] = MessageParsed(out, a)]
            /\ pc' = [pc EXCEPT ![r] = "Analyzed"]
            /\ UNCHANGED <<resp, lastDone>>
    /\ UNCHANGED <<store, brand, data, existing, wrote>>
    /\ UNCHANGED promptVars

\* save_landscape_analysis: the existence select
SaveSelect(r) ==
    /\ pc[r] = "Analyzed"
    /\ \/ /\ Log(r, "competitor_summary.select", "raise")
          /\ Respond(r, HandlerExcept("summary select failed"))
          /\ UNCHANGED existing
       \/ /\ Log(r, "competitor_summary.select", "ok")
          /\ existing' = [existing EXCEPT ![r] = SelectIds(store, brand[r])]
          /\ pc' = [pc EXCEPT ![r] = "Checked"]
          /\ UNCHANGED <<resp, lastDone>>
    /\ UNCHANGED <<store, brand, data, analysis, wrote>>
    /\ UNCHANGED promptVars

\* save_landscape_analysis: update or insert, response.data[0], and the
\* handler's return
SaveWrite(r) ==
    /\ pc[r] = "Checked"
    /\ LET d  == WriteDict(analysis[r])
           op == IF existing[r] # {} THEN "update" ELSE "insert"
       IN  IF ~d.ok
           THEN /\ Respond(r, HandlerExcept(d.err))
                /\ UNCHANGED <<store, calls, wrote>>
           ELSE \/ /\ Log(r, op, "raise")
                   /\ Respond(r, HandlerExcept("summary write failed"))
                   /\ UNCHANGED <<store, wrote>>
                \/ \E representation \in {"rows", "norows"} :
                     /\ Log(r, op, representation)
                     /\ store' = IF op = "update"
                                 THEN UpdateRows(store, brand[r], d.val)
                                 ELSE InsertRow(store, brand[r], d.val)
                     /\ wrote' = [wrote EXCEPT ![r] =
                                    Append(@, [op |-> op, brand_name |-> brand[r],
                                               fields |-> d.val])]
                     /\ IF representation = "norows"
                        THEN Respond(r, HandlerExcept("list index out of range"))
                        ELSE Respond(r, Response200(brand[r], analysis[r]))
    /\ UNCHANGED <<brand, data, analysis, existing>>
    /\ UNCHANGED promptVars

Next ==
    \E r \in Reqs :
        \/ \E b \in Brands : Receive(r, b)
        \/ FetchCompetitors(r)
        \/ Analyze(r)
        \/ SaveSelect(r)
        \/ SaveWrite(r)

Spec == Init /\ [][Next]_vars


\* ------------------------------------------- requests served one at a time

InFlight(r) == pc[r] \notin {"idle", "Responded"}

\* a request that arrives while no other request is being served
ReceiveSeq(r, b) ==
    /\ \A q \in Reqs : ~InFlight(q)
    /\ Receive(r, b)

NextSeq ==
    \E r \in Reqs :
        \/ \E b \in Brands : ReceiveSeq(r, b)
        \/ FetchCompetitors(r)
        \/ Analyze(r)
        \/ SaveSelect(r)
        \/ SaveWrite(r)

SpecSeq == Init /\ [][NextSeq]_vars

\* ------------------------------------------- the prompt builder on its own

InitPrompt ==
    /\ InitReq
    /\ comps \in SeqsUpTo(RowSet, MaxComps)
    /\ overview = <<>>

\* one iteration of: for comp in competitors_data: competitors_overview += ...
BuildBlock ==
    /\ Len(overview) < Len(comps)
    /\ overview' = Append(overview, Block(comps[Len(overview) + 1]))
    /\ UNCHANGED comps
    /\ UNCHANGED reqVars

NextPrompt == BuildBlock

SpecPrompt == InitPrompt /\ [][NextPrompt]_vars

\* ------------------------------------------------------------------ claims

Done(r) == pc[r] = "Responded"
Status(r) == resp[r][1].status
HasCall(r, op, out) == \E i \in 1..Len(calls[r]) : calls[r][i] = [op |-> op, out |-> out]
CallOps(r) == [i \in 1..Len(calls[r]) |-> calls[r][i].op]
WriteOps == {"insert", "update"}
RowsIn(s, b) == {i \in 1..Len(s) : s[i].brand_name = b}
RowsOf(b) == RowsIn(store, b)
Inserted(r) == wrote[r] # <<>> /\ wrote[r][1].op = "insert"
Updated(r) == wrote[r] # <<>> /\ wrote[r][1].op = "update"
IsPrefix(p, q) == Len(p) <= Len(q) /\ \A i \in 1..Len(p) : p[i] = q[i]

\* C1: a request whose competitors read returned no rows is answered 404
\* "No competitor data found" and performs no insert or update.
C1_EmptyReadIs404 ==
    \A r \in Reqs :
        (Done(r) /\ HasCall(r, "competitors.select", "empty")) =>
            /\ resp[r] = <<[status |-> 404, detail |-> "No competitor data found"]>>
            /\ wrote[r] = <<>>

\* C2: with a non-empty competitors read, a completion call that raises or
\* yields no parsed object ends the request with 500 and the request executes
\* no insert and no update.
C2_AnalysisFailureNoWrite ==
    \A r \in Reqs :
        (/\ Done(r)
         /\ HasCall(r, "competitors.select", "rows")
         /\ \/ HasCall(r, "completions.parse", "raise")
            \/ HasCall(r, "completions.parse", "none")) =>
            /\ Len(resp[r]) = 1
            /\ Status(r) = 500
            /\ wrote[r] = <<>>
            /\ \A i \in 1..Len(calls[r]) : calls[r][i].op \notin WriteOps

C2_Witness ==
    \E r \in Reqs :
        /\ Done(r)
        /\ HasCall(r, "completions.parse", "none")
        /\ HasCall(r, "competitor_summary.select", "ok")
        /\ Status(r) = 500

\* C3: when the analysis succeeded and save_landscape_analysis failed (the
\* existence select raised, the update/insert raised, or response.data[0]
\* could not be read), the request is answered 500 and has written nothing.
SaveFailed(r) ==
    \/ HasCall(r, "competitor_summary.select", "raise")
    \/ \E op \in WriteOps : HasCall(r, op, "raise") \/ HasCall(r, op, "norows")

C3_SaveFailureNoWrite ==
    \A r \in Reqs :
        (Done(r) /\ HasCall(r, "completions.parse", "parsed") /\ SaveFailed(r)) =>
            /\ Status(r) = 500
            /\ wrote[r] = <<>>

\* C4: every brand for which some request returned 200 has exactly one row.
C4_OneRowPerBrand ==
    \A b \in Brands :
        (\E r \in Reqs : Done(r) /\ brand[r] = b /\ Status(r) = 200) =>
            Cardinality(RowsOf(b)) = 1

\* C5: requests served one after the other: when a request for a brand returns
\* 200 after an earlier request for that brand returned 200, it took the update
\* path, and the brand has exactly one row, carrying the later analysis.
C5_ReanalysisUpdates ==
    \A r1, r2 \in Reqs :
        (/\ r1 # r2
         /\ Done(r1) /\ Done(r2)
         /\ brand[r1] = brand[r2]
         /\ Status(r1) = 200 /\ Status(r2) = 200
         /\ lastDone[brand[r2]] = r2) =>
            /\ wrote[r2] = <<[op |-> "update", brand_name |-> brand[r2],
                              fields |-> WriteDict(analysis[r2]).val]>>
            /\ Cardinality(RowsOf(brand[r2])) = 1
            /\ \A i \in RowsOf(brand[r2]) :
                 store[i] = SummaryRow(brand[r2], analysis[r2])

C5_Witness ==
    \E r1, r2 \in Reqs :
        /\ r1 # r2
        /\ Done(r1) /\ Done(r2)
        /\ brand[r1] = brand[r2]
        /\ Status(r1) = 200 /\ Status(r2) = 200
        /\ lastDone[brand[r2]] = r2
        /\ Inserted(r1) /\ existing[r1] = {}
        /\ Updated(r2)
        /\ analysis[r1] # analysis[r2]
        /\ \A q \in Reqs \ {r1, r2} : pc[q] = "idle"

\* C6: nothing between the existence check and the insert keeps two requests
\* for one brand from both inserting: a brand has as many rows as there are
\* requests whose insert the store executed.
C6_EveryInsertAddsARow ==
    \A b \in Brands :
        Cardinality(RowsOf(b)) =
            Cardinality({r \in Reqs : brand[r] = b /\ Inserted(r)})

C6_Witness ==
    \E r1, r2 \in Reqs :
        /\ r1 # r2
        /\ brand[r1] = brand[r2]
        /\ Done(r1) /\ Done(r2)
        /\ HasCall(r1, "competitor_summary.select", "ok") /\ existing[r1] = {}
        /\ HasCall(r2, "competitor_summary.select", "ok") /\ existing[r2] = {}
        /\ Inserted(r1) /\ Inserted(r2)
        /\ Status(r1) = 200 /\ Status(r2) = 200
        /\ Cardinality(RowsOf(brand[r1])) = 2

\* C7: in every block built, a field whose key is absent from the row or whose
\* value is null renders as "N/A" after its label.
C7_MissingRendersNA ==
    \A i \in 1..Len(overview) :
        \A j \in 1..Len(Fields) :
            (\/ Fields[j] \notin DOMAIN comps[i]
             \/ comps[i][Fields[j]].t = "None") =>
                overview[i][j] = [label |-> Labels[j], text |-> "N/A"]

\* C8: every request ends with exactly one response: 404 exactly for an empty
\* competitors read, 500 with the error's message for every other failure, 200
\* exactly when fetch, analysis and save all succeeded.
AllSucceeded(r) ==
    /\ HasCall(r, "competitors.select", "rows")
    /\ HasCall(r, "completions.parse", "parsed")
    /\ HasCall(r, "competitor_summary.select", "ok")
    /\ \E op \in WriteOps : HasCall(r, op, "rows")

C8_StatusMapping ==
    \A r \in Reqs :
        Done(r) =>
            /\ Len(resp[r]) = 1
            /\ Status(r) \in {200, 404, 500}
            /\ (Status(r) = 404) <=> HasCall(r, "competitors.select", "empty")
            /\ (Status(r) = 200) <=> AllSucceeded(r)

\* C9: the calls of a request are made in the order competitors read,
\* completion, existence check, write; a 200 is sent only after the request's
\* write was executed, and its body carries the path parameter and the two
\* fields the request wrote.
CallOrders ==
    {<<"competitors.select", "completions.parse", "competitor_summary.select", w>> :
        w \in WriteOps}

C9_OrderAndBody ==
    \A r \in Reqs :
        /\ \E o \in CallOrders : IsPrefix(CallOps(r), o)
        /\ (Done(r) /\ Status(r) = 200) =>
              /\ Len(resp[r]) = 1
              /\ CallOps(r) \in CallOrders
              /\ Len(wrote[r]) = 1
              /\ RowsOf(brand[r]) # {}
              /\ resp[r][1].body =
                    [brand_name |-> wrote[r][1].brand_name,
                     competitive_summary |-> wrote[r][1].fields.competitive_summary,
                     gaps_opportunities |-> wrote[r][1].fields.gaps_opportunities]
              /\ resp[r][1].body.brand_name = brand[r]

C9_Witness ==
    \E r \in Reqs :
        /\ Done(r)
        /\ Status(r) = 200
        /\ Len(wrote[r]) = 1
        /\ CallOps(r) \in CallOrders

\* C10: a request whose existence check found rows updates; an update leaves
\* the number of rows as it is, gives every row of the brand the request's two
\* fields and leaves the rows of other brands alone; no step removes a row of
\* any brand.
WriteStep(r) == Len(wrote'[r]) = Len(wrote[r]) + 1

UpdateFrame(r) ==
    LET w == wrote'[r][Len(wrote'[r])]
    IN  /\ existing[r] # {} => w.op = "update"
        /\ w.op = "update" =>
              /\ existing[r] # {}
              /\ Len(store') = Len(store)
              /\ \A i \in 1..Len(store) :
                    store'[i] = IF store[i].brand_name = brand[r]
                                THEN SummaryRow(brand[r], w.fields)
                                ELSE store[i]

C10_UpdateKeepsDuplicates ==
    [][/\ \A r \in Reqs : WriteStep(r) => UpdateFrame(r)
       /\ \A b \in Brands : Cardinality(RowsIn(store', b)) >= Cardinality(RowsIn(store, b))]_vars

C10_Witness ==
    \E r \in Reqs :
        /\ Done(r)
        /\ Status(r) = 200
        /\ Updated(r)
        /\ Cardinality(existing[r]) >= 2
        /\ Cardinality(RowsOf(brand[r])) = Cardinality(existing[r])
        /\ lastDone[brand[r]] = r
        /\ \A i \in RowsOf(brand[r]) : store[i] = SummaryRow(brand[r], analysis[r])
        /\ \E q \in Reqs : Inserted(q) /\ brand[q] = brand[r] /\ analysis[q] # analysis[r]

====
